---- MODULE Spec2Model ----
(***************************************************************************)
(* A model of the update-check hook useTauriUpdater (the update            *)
(* orchestrator): its React state, the shouldRetry ref, the two effects    *)
(* (startup check and 5 s timeout), the checks in flight with the value of *)
(* `retries` their closure captured, the manual re-check, and the          *)
(* install-then-relaunch callback; and a model of the timeout hook         *)
(* useTimeout (the deadline timer): its `enabled` state, its two refs, the *)
(* 50 ms interval that drives timeOutInternal, and a clock.                *)
(*                                                                         *)
(* One step of the model is one task of the JavaScript event loop together *)
(* with the render and the effects it causes: a promise callback, a timer  *)
(* callback, an event handler calling reCheck/update, a change of the      *)
(* `passive` prop, mount and unmount.                                      *)
(***************************************************************************)
EXTENDS Naturals, Sequences, FiniteSets

\* ---------------------------------------------------------------- bounds

\* retryCount is drawn from 1..MaxRetryCount.
MaxRetryCount == 2
\* Failing checks are cut off once `retries` would exceed MaxRetries.
MaxRetries == 3
\* At most MaxInFlight checkUpdate() promises are pending at a time.
MaxInFlight == 2
\* At most MaxUpdateCalls calls of the update callback are made.
MaxUpdateCalls == 2
\* The clock of the timer runs from 0 to MaxTime.
MaxTime == 4
\* intervalInternal is drawn from 0..MaxInterval, in units of the clock.
MaxInterval == 2
\* The runs of the timer's callback are counted up to MaxFires.
MaxFires == 2

\* ---------------------------------------------------------------- values

\* The manifests checkUpdate() may deliver; "undefined" is an absent field.
Manifests == {"m1"}
ResultManifests == Manifests \cup {"undefined"}
\* UpdateResult: { shouldUpdate: boolean, manifest?: UpdateManifest }.
UpdateResults == [shouldUpdate : BOOLEAN, manifest : ResultManifests]

\* A boolean as the ShouldUpdate state holds it beside null and undefined.
BoolValue(b) == IF b THEN "true" ELSE "false"
\* x ?? null
NullishCoalesce(x) == IF x \in {"undefined", "null"} THEN "null" ELSE x

NoCheck == [captured |-> 0, origin |-> "none", exhausted |-> FALSE]
NoTimeout == [armed |-> FALSE, passive |-> FALSE, retries |-> 0]

VARIABLES
    phase,        \* "constructed" (rendered, effects not yet run), "mounted", "unmounted"
    passive,      \* the prop `passive`
    retryCount,   \* the prop `retryCount`
    shouldUpdate, \* state: "null" | "undefined" | "true" | "false"
    manifest,     \* state: "null" | "undefined" | a manifest
    checkError,   \* state
    retries,      \* state
    shouldRetry,  \* shouldRetry.current
    timeout,      \* the pending setTimeout of the second effect and what its closure captured
    inflight,     \* pending checkUpdate() promises, in the order they were started
    calls,        \* the calls of updateCallback made so far
    terminated,   \* relaunch() has restarted the process
    unhandled,    \* a check's promise chain has settled as rejected with no handler
    consecFails,  \* history: failed checks since the last success or reCheck, saturating
    prompted,     \* history: `passive` has been false while mounted, or reCheck was called
    rechecked,    \* history: reCheck was called since the last completion of a check
    lastKind,     \* history: how the last check to complete ended: "none", "then", "catch"
    done,         \* history: the last two completions of checks, the latest last (if kept)
    op            \* history: the step just taken, the checks it started, the check it completed

\* The state of useTimeout.
VARIABLES
    tphase,           \* "constructed", "mounted", "unmounted"
    enabled,          \* state
    resetState,       \* resetState.current
    start,            \* start.current, as a time of the clock
    intervalInternal, \* the interval in units of the clock
    ticking,          \* the setInterval of the last effect is set
    now,              \* the clock: what new Date() returns
    armedAt,          \* history: when the timer was last armed
    rearmed,          \* history: setEnabled(true) was called since the last fire (or none yet)
    fires,            \* history: how often the callback has run
    tstep             \* history: the timer step just taken, and whether it ran the callback

hookVars == <<phase, passive, retryCount, shouldUpdate, manifest, checkError, retries,
              shouldRetry, timeout, inflight, calls, terminated, unhandled, consecFails,
              prompted, rechecked, lastKind, done, op>>

timerVars == <<tphase, enabled, resetState, start, intervalInternal, ticking, now,
               armedAt, rearmed, fires, tstep>>

vars == <<hookVars, timerVars>>

checkVars == <<passive, retryCount, shouldUpdate, manifest, checkError, retries,
               shouldRetry, timeout, inflight, unhandled, consecFails, prompted,
               rechecked, lastKind, done>>

NoResult == [shouldUpdate |-> FALSE, manifest |-> "none"]

\* The origins of the checks that fl holds beyond the list base it was built from.
Issued(base, fl) == {fl[j].origin : j \in (Len(base) + 1)..Len(fl)}

\* The value of `done` in the specifications that keep no record of completions.
NotKept == <<[kind |-> "none", origin |-> "none", index |-> 0]>>

\* The completion of the i-th check of the in-flight list fl, appended to the last one.
Completed(kind, fl, i) ==
    LET entry == [kind |-> kind, origin |-> fl[i].origin, index |-> i]
    IN  IF done = NotKept THEN NotKept
        ELSE IF done = <<>> THEN <<entry>>
        ELSE <<done[Len(done)], entry>>

Step(name, issued, check, result) ==
    [name |-> name, issued |-> issued, check |-> check, result |-> result]

\* ---------------------------------------------------------------- the hook

\* The condition without the test of the ref.
TriggerCond_IgnoreRef(p, sr, r) == ~p \/ r < retryCount
\* The condition without the test of `passive`.
TriggerCond_NoPassive(p, sr, r) == sr /\ r < retryCount

\* The condition both effects test before calling checkUpdateInternal.
TriggerCond(p, sr, r) == ~p \/ (sr /\ r < retryCount)

\* checkUpdateInternal(): starts checkUpdate(); the callback's closure holds `retries`
\* of the render that created it.
checkUpdateInternal(fl, r, origin, exh) ==
    Append(fl, [captured |-> r, origin |-> origin, exhausted |-> exh])

\* The first effect: check for updates.
StartupEffect(p, sr, r, fl) ==
    IF TriggerCond(p, sr, r) THEN checkUpdateInternal(fl, r, "startup", FALSE) ELSE fl

\* The second effect: arm the 5 s timeout; its callback closes over passive and retries.
TimeoutEffect(p, r) == [armed |-> TRUE, passive |-> p, retries |-> r]

\* The effects' dependencies [checkUpdateInternal, passive, retries, retryCount] changed.
DepsChanged(p, r) == p # passive \/ r # retries

\* A render with the props and state (p, r) after a step that left the in-flight list
\* fl, built from base: when a dependency changed, the timeout effect's cleanup runs and
\* both effects run again.
Render(p, sr, r, base, fl, name, check, result) ==
    IF phase = "mounted" /\ DepsChanged(p, r)
    THEN /\ inflight' = StartupEffect(p, sr, r, fl)
         /\ timeout' = TimeoutEffect(p, r)
         /\ op' = Step(name, Issued(base, inflight'), check, result)
    ELSE /\ inflight' = fl
         /\ timeout' = timeout
         /\ op' = Step(name, Issued(base, fl), check, result)

\* What the callback given to useTimeout does when it runs: nothing to the timer, or it
\* calls setEnabled(true), or it calls reset().
Callbacks == {"idle", "enable", "reset"}

\* `pending` is resetState.current as the step found it.
TimerStep(name, fired, cb, timeDiff) ==
    [name |-> name, fired |-> fired, callback |-> cb, timeDiff |-> timeDiff,
     pending |-> resetState]

\* useTimeout's first render: enabled = true, resetState = false, start = new Date().
TimerConstruct(iv) ==
    /\ tphase = "constructed"
    /\ enabled = TRUE
    /\ resetState = FALSE
    /\ now = 0
    /\ start = 0
    /\ intervalInternal = iv
    /\ ticking = FALSE
    /\ armedAt = 0
    /\ rearmed = TRUE
    /\ fires = 0
    /\ tstep = TimerStep("construct", FALSE, "none", 0)

\* The state and the ref of useTauriUpdater as its first render leaves them.
HookFirstRender ==
    /\ shouldUpdate = "null"
    /\ manifest = "null"
    /\ checkError = FALSE
    /\ retries = 0
    /\ shouldRetry = FALSE
    /\ timeout = NoTimeout
    /\ inflight = <<>>
    /\ calls = <<>>
    /\ terminated = FALSE
    /\ unhandled = FALSE
    /\ consecFails = 0
    /\ prompted = FALSE
    /\ rechecked = FALSE
    /\ lastKind = "none"
    /\ op = Step("construct", {}, NoCheck, NoResult)

\* useTauriUpdater's first render.
HookConstruct(p, rc) ==
    /\ phase = "constructed"
    /\ passive = p
    /\ retryCount = rc
    /\ HookFirstRender

Init ==
    /\ \E p \in BOOLEAN, rc \in 1..MaxRetryCount : HookConstruct(p, rc)
    /\ done = NotKept
    /\ TimerConstruct(0)

\* The first commit: both effects run.
Mount ==
    /\ phase = "constructed"
    /\ ~terminated
    /\ UNCHANGED timerVars
    /\ phase' = "mounted"
    /\ inflight' = StartupEffect(passive, shouldRetry, retries, inflight)
    /\ timeout' = TimeoutEffect(passive, retries)
    /\ op' = Step("mount", Issued(inflight, inflight'), NoCheck, NoResult)
    /\ prompted' = ~passive
    /\ UNCHANGED <<passive, retryCount, shouldUpdate, manifest, checkError, retries,
                   shouldRetry, calls, terminated, unhandled, consecFails, rechecked,
                   lastKind, done>>

Remove(seq, i) == SubSeq(seq, 1, i - 1) \o SubSeq(seq, i + 1, Len(seq))

\* What the then-callback writes.
ThenShouldUpdate(res) == BoolValue(res.shouldUpdate)
ThenManifest(res) == NullishCoalesce(res.manifest)
ThenCheckError == FALSE
\* A then-callback that leaves `retries` alone.
ThenRetries_Keep == retries
ThenRetries == 0
\* A then-callback that leaves the ref alone.
ThenShouldRetry_Keep == shouldRetry
ThenShouldRetry == FALSE

\* A catch-callback that leaves shouldUpdate alone.
CatchShouldUpdate_Keep == shouldUpdate
\* A catch-callback that sets the manifest to null.
CatchManifest_Null == "null"
\* A catch-callback that allows the retry up to and including retryCount.
CatchShouldRetry_Inclusive(newRetries) == newRetries <= retryCount

\* What the catch-callback writes; `captured` is the `retries` of its closure.
CatchShouldUpdate == "undefined"
CatchManifest == "undefined"
CatchCheckError == TRUE
CatchRetries(captured) == captured + 1
CatchShouldRetry(newRetries) == newRetries < retryCount

\* The chain without its catch: checkUpdate().then(f).
ChainSettles_NoCatch(outcome) == outcome

\* checkUpdate().then(f).catch(g): how the chain settles for each way checkUpdate()
\* settles. Neither callback throws, and catch(g) turns a rejection into a fulfilment.
ChainSettles(outcome) == IF outcome = "rejected" THEN "fulfilled" ELSE outcome

\* checkUpdate() of the i-th check in flight resolves with res: the then-callback.
\* After unmount the state setters do nothing; the ref is still written.
CheckThen(i, res) ==
    /\ ~terminated
    /\ UNCHANGED timerVars
    /\ phase \in {"mounted", "unmounted"}
    /\ i \in 1..Len(inflight)
    /\ shouldRetry' = ThenShouldRetry
    /\ unhandled' = (unhandled \/ ChainSettles("fulfilled") = "rejected")
    /\ consecFails' = 0
    /\ IF phase = "mounted"
       THEN /\ shouldUpdate' = ThenShouldUpdate(res)
            /\ manifest' = ThenManifest(res)
            /\ checkError' = ThenCheckError
            /\ retries' = ThenRetries
       ELSE UNCHANGED <<shouldUpdate, manifest, checkError, retries>>
    /\ Render(passive, shouldRetry', retries', Remove(inflight, i), Remove(inflight, i),
              "then", inflight[i], res)
    /\ rechecked' = FALSE
    /\ lastKind' = "then"
    /\ done' = Completed("then", inflight, i)
    /\ UNCHANGED <<phase, passive, retryCount, calls, terminated, prompted>>

\* checkUpdate() of the i-th check in flight rejects: the catch-callback.
CheckCatch(i) ==
    /\ ~terminated
    /\ UNCHANGED timerVars
    /\ phase \in {"mounted", "unmounted"}
    /\ i \in 1..Len(inflight)
    /\ inflight[i].captured < MaxRetries
    /\ LET newRetries == CatchRetries(inflight[i].captured) IN
       /\ shouldRetry' = CatchShouldRetry(newRetries)
       /\ IF phase = "mounted"
          THEN /\ shouldUpdate' = CatchShouldUpdate
               /\ manifest' = CatchManifest
               /\ checkError' = CatchCheckError
               /\ retries' = newRetries
          ELSE UNCHANGED <<shouldUpdate, manifest, checkError, retries>>
    /\ unhandled' = (unhandled \/ ChainSettles("rejected") = "rejected")
    /\ consecFails' = IF consecFails < retryCount THEN consecFails + 1 ELSE consecFails
    /\ Render(passive, shouldRetry', retries', Remove(inflight, i), Remove(inflight, i),
              "catch", inflight[i], NoResult)
    /\ rechecked' = FALSE
    /\ lastKind' = "catch"
    /\ done' = Completed("catch", inflight, i)
    /\ UNCHANGED <<phase, passive, retryCount, calls, terminated, prompted>>

\* A reCheck that leaves `retries` alone.
ExternalRetries_Keep == retries

\* A reCheck that puts shouldUpdate back to null.
ExternalShouldUpdate_Null == "null"

\* What checkUpdateExternal writes; it calls no setter of the status, so shouldUpdate
\* keeps its value.
ExternalRetries == 0
ExternalShouldRetry == TRUE
ExternalShouldUpdate == shouldUpdate

\* reCheck(): checkUpdateExternal. It calls the checkUpdateInternal of the current
\* render, whose closure holds the current `retries`; the render that follows
\* setRetries(0) runs the effects again when `retries` was not 0.
checkUpdateExternal ==
    /\ ~terminated
    /\ UNCHANGED timerVars
    /\ phase = "mounted"
    /\ Len(inflight) + (IF retries = ExternalRetries THEN 1 ELSE 2) <= MaxInFlight
    /\ retries' = ExternalRetries
    /\ shouldRetry' = ExternalShouldRetry
    /\ consecFails' = 0
    /\ prompted' = TRUE
    /\ rechecked' = TRUE
    /\ shouldUpdate' = ExternalShouldUpdate
    /\ Render(passive, shouldRetry', retries', inflight,
              checkUpdateInternal(inflight, retries, "recheck",
                                  checkError /\ retries >= retryCount),
              "recheck", NoCheck, NoResult)
    /\ UNCHANGED <<phase, passive, retryCount, manifest, checkError,
                   calls, terminated, unhandled, lastKind, done>>

\* The 5 s timeout fires: its callback tests the condition on the passive and retries
\* of its closure and on the ref.
TimeoutFire ==
    /\ ~terminated
    /\ UNCHANGED timerVars
    /\ phase \in {"mounted", "unmounted"}
    /\ timeout.armed
    /\ Len(inflight) < MaxInFlight
    /\ LET cond == TriggerCond(timeout.passive, shouldRetry, timeout.retries) IN
       /\ inflight' = IF cond
                      THEN checkUpdateInternal(inflight, timeout.retries, "timeout", FALSE)
                      ELSE inflight
       /\ op' = Step("timeout", Issued(inflight, inflight'), NoCheck, NoResult)
    /\ timeout' = NoTimeout
    /\ UNCHANGED <<phase, passive, retryCount, shouldUpdate, manifest, checkError, retries,
                   shouldRetry, calls, terminated, unhandled, consecFails, prompted,
                   rechecked, lastKind, done>>

\* The parent renders the hook with another value of `passive`.
SetPassive(p) ==
    /\ ~terminated
    /\ UNCHANGED timerVars
    /\ phase = "mounted"
    /\ p # passive
    /\ Len(inflight) < MaxInFlight
    /\ passive' = p
    /\ prompted' = (prompted \/ ~p)
    /\ Render(p, shouldRetry, retries, inflight, inflight, "passive", NoCheck, NoResult)
    /\ UNCHANGED <<phase, retryCount, shouldUpdate, manifest, checkError, retries,
                   shouldRetry, calls, terminated, unhandled, consecFails, rechecked,
                   lastKind, done>>

\* A cleanup that leaves the timeout pending.
TimeoutCleanup_Keep == timeout

\* The cleanup of the timeout effect: clearTimeout(timeout).
TimeoutCleanup == NoTimeout

\* The component unmounts: the timeout effect's cleanup clears the timeout.
Unmount ==
    /\ ~terminated
    /\ UNCHANGED timerVars
    /\ phase = "mounted"
    /\ phase' = "unmounted"
    /\ timeout' = TimeoutCleanup
    /\ op' = Step("unmount", {}, NoCheck, NoResult)
    /\ UNCHANGED <<passive, retryCount, shouldUpdate, manifest, checkError, retries,
                   shouldRetry, inflight, calls, terminated, unhandled, consecFails,
                   prompted, rechecked, lastKind, done>>

\* ---------------------------------------------------------------- install and relaunch

\* installUpdate().then(relaunch).catch(() => {}): the rejection is swallowed.
ThenRelaunch_Swallow(outcome) ==
    IF outcome = "fulfilled"
    THEN [install |-> "fulfilled", relaunch |-> "pending", relaunched |-> 1,
          promise |-> "pending"]
    ELSE [install |-> "rejected", relaunch |-> "none", relaunched |-> 0,
          promise |-> "fulfilled"]

\* installUpdate().finally(relaunch): relaunch runs however installUpdate() settles.
ThenRelaunch_Finally(outcome) ==
    [install |-> outcome, relaunch |-> "pending", relaunched |-> 1, promise |-> "pending"]

\* installUpdate().then(relaunch): the call's record once installUpdate() has settled.
\* relaunch runs only on fulfilment; a rejection passes through to the returned promise.
ThenRelaunch(outcome) ==
    IF outcome = "fulfilled"
    THEN [install |-> "fulfilled", relaunch |-> "pending", relaunched |-> 1,
          promise |-> "pending"]
    ELSE [install |-> "rejected", relaunch |-> "none", relaunched |-> 0,
          promise |-> "rejected"]

\* update(): updateCallback calls installUpdate() and returns the chained promise.
updateCallback ==
    /\ ~terminated
    /\ UNCHANGED timerVars
    /\ phase \in {"mounted", "unmounted"}
    /\ Len(calls) < MaxUpdateCalls
    /\ calls' = Append(calls, [install |-> "pending", relaunch |-> "none",
                               relaunched |-> 0, promise |-> "pending"])
    /\ op' = Step("update", {}, NoCheck, NoResult)
    /\ UNCHANGED <<phase, terminated>>
    /\ UNCHANGED checkVars

\* installUpdate() of the i-th call settles.
InstallSettles(i, outcome) ==
    /\ ~terminated
    /\ UNCHANGED timerVars
    /\ i \in 1..Len(calls)
    /\ calls[i].install = "pending"
    /\ calls' = [calls EXCEPT ![i] = ThenRelaunch(outcome)]
    /\ op' = Step("install", {}, NoCheck, NoResult)
    /\ UNCHANGED <<phase, terminated>>
    /\ UNCHANGED checkVars

\* relaunch() of the i-th call settles: the process restarts, or relaunch() rejects and
\* the returned promise rejects with it.
RelaunchSettles(i, outcome) ==
    /\ ~terminated
    /\ UNCHANGED timerVars
    /\ i \in 1..Len(calls)
    /\ calls[i].relaunch = "pending"
    /\ IF outcome = "fulfilled"
       THEN /\ terminated' = TRUE
            /\ calls' = [calls EXCEPT ![i].relaunch = "exited"]
       ELSE /\ terminated' = FALSE
            /\ calls' = [calls EXCEPT ![i].relaunch = "rejected",
                                      ![i].promise = "rejected"]
    /\ op' = Step("relaunch", {}, NoCheck, NoResult)
    /\ UNCHANGED phase
    /\ UNCHANGED checkVars

\* ---------------------------------------------------------------- useTimeout

\* An effect on [enabled] that leaves start.current alone.
EnabledEffect_KeepStart(en) == start

\* The effect on [enabled]: if (enabled) start.current = new Date().
EnabledEffect(en) == IF en THEN now ELSE start

\* A cleanup that leaves the interval set.
IntervalCleanup_Keep == ticking

\* The cleanup of the interval effect: clearInterval(interval).
IntervalCleanup == FALSE

\* timeOutInternal without the test of `enabled`.
TickBranch_IgnoreEnabled(en, rs, timeDiff) ==
    IF rs THEN "reset"
    ELSE IF timeDiff > intervalInternal THEN "fire"
    ELSE "wait"

\* timeOutInternal testing the expiry before the pending reset.
TickBranch_ExpiryFirst(en, rs, timeDiff) ==
    IF ~en THEN "disabled"
    ELSE IF timeDiff > intervalInternal THEN "fire"
    ELSE IF rs THEN "reset"
    ELSE "wait"

\* The branch timeOutInternal takes, for the `enabled` of its closure, resetState.current
\* and timeDiff = currentTime - start.current.
TickBranch(en, rs, timeDiff) ==
    IF ~en THEN "disabled"
    ELSE IF rs THEN "reset"
    ELSE IF timeDiff > intervalInternal THEN "fire"
    ELSE "wait"

\* A disabled tick that leaves resetState.current alone.
DisabledTickReset_Keep == resetState

\* What a tick writes to resetState.current when it finds the timer disabled.
DisabledTickReset == FALSE

\* A tick that restarts the countdown for a pending reset without clearing the flag.
ConsumeReset_Keep == resetState

\* What a tick writes to resetState.current when it consumes a pending reset.
ConsumeReset == FALSE

\* A setter that renders also when the value is the one the state holds.
StateChanged_Always(old, new) == TRUE

\* useState: setting the state to the value it holds renders nothing and runs no effect.
StateChanged(old, new) == old # new

\* A reset() that also enables the timer.
ResetEnabled_Arm == TRUE

\* What reset() does to `enabled`: nothing.
ResetEnabled == enabled

\* A fire that leaves `enabled` alone.
FireEnabled_Stay == enabled

\* What the fire writes before it calls the callback: setEnabled(false).
FireEnabled == FALSE

\* useTimeout mounts: the effect on [enabled] and the interval effect run.
TimerMount ==
    /\ tphase = "constructed"
    /\ tphase' = "mounted"
    /\ start' = EnabledEffect(enabled)
    /\ ticking' = TRUE
    /\ tstep' = TimerStep("mount", FALSE, "none", 0)
    /\ UNCHANGED <<enabled, resetState, intervalInternal, now, armedAt, rearmed, fires>>
    /\ UNCHANGED hookVars

\* The clock advances.
Advance ==
    /\ now < MaxTime
    /\ now' = now + 1
    /\ tstep' = TimerStep("advance", FALSE, "none", 0)
    /\ UNCHANGED <<tphase, enabled, resetState, start, intervalInternal, ticking,
                   armedAt, rearmed, fires>>
    /\ UNCHANGED hookVars

\* setEnabled(b), called by the owner of the timer. A change of `enabled` renders the
\* hook: the effect on [enabled] runs, and the interval is cleared and set again with
\* the new timeOutInternal. Without a change nothing renders.
setEnabled(b) ==
    /\ tphase = "mounted"
    /\ enabled' = b
    /\ start' = IF StateChanged(enabled, b) THEN EnabledEffect(b) ELSE start
    /\ armedAt' = IF b /\ ~enabled THEN now ELSE armedAt
    /\ rearmed' = (rearmed \/ b)
    /\ tstep' = TimerStep(IF b THEN "enable" ELSE "disable", FALSE, "none", 0)
    /\ UNCHANGED <<tphase, resetState, intervalInternal, ticking, now, fires>>
    /\ UNCHANGED hookVars

\* reset(), called by the owner of the timer.
reset ==
    /\ tphase = "mounted"
    /\ resetState' = TRUE
    /\ enabled' = ResetEnabled
    /\ tstep' = TimerStep("reset", FALSE, "none", 0)
    /\ UNCHANGED <<tphase, start, intervalInternal, ticking, now, armedAt,
                   rearmed, fires>>
    /\ UNCHANGED hookVars

\* The interval calls timeOutInternal; on expiry the callback cb runs, after
\* start.current = new Date() and setEnabled(false). The state setters called in this
\* task are applied together in the render that follows it, and do nothing once the
\* hook is unmounted.
timeOutInternal(cb) ==
    /\ ticking
    /\ LET branch == TickBranch(enabled, resetState, now - start)
           fire == branch = "fire"
       IN  /\ cb \in (IF fire THEN Callbacks ELSE {"none"})
           /\ resetState' = CASE branch = "disabled" -> DisabledTickReset
                              [] branch = "reset" -> ConsumeReset
                              [] fire /\ cb = "reset" -> TRUE
                              [] OTHER -> resetState
           /\ start' = IF branch \in {"reset", "fire"} THEN now ELSE start
           /\ enabled' = IF fire /\ tphase = "mounted"
                         THEN (IF cb = "enable" THEN TRUE ELSE FireEnabled)
                         ELSE enabled
           /\ armedAt' = IF branch \in {"reset", "fire"} THEN now ELSE armedAt
           /\ rearmed' = IF fire THEN cb = "enable" ELSE rearmed
           /\ fires' = IF fire /\ fires < MaxFires THEN fires + 1 ELSE fires
           /\ tstep' = TimerStep("tick", fire, cb, now - start)
    /\ UNCHANGED <<tphase, intervalInternal, ticking, now>>
    /\ UNCHANGED hookVars

\* useTimeout unmounts: the interval effect's cleanup runs.
TimerUnmount ==
    /\ tphase = "mounted"
    /\ tphase' = "unmounted"
    /\ ticking' = IntervalCleanup
    /\ tstep' = TimerStep("unmount", FALSE, "none", 0)
    /\ UNCHANGED <<enabled, resetState, start, intervalInternal, now, armedAt, rearmed,
                   fires>>
    /\ UNCHANGED hookVars

\* The timer, constructed with each interval, beside a hook that is never mounted.
TimerInit ==
    /\ HookConstruct(TRUE, 1)
    /\ done = NotKept
    /\ \E iv \in 0..MaxInterval : TimerConstruct(iv)

TimerNext ==
    \/ TimerMount
    \/ Advance
    \/ \E b \in BOOLEAN : setEnabled(b)
    \/ reset
    \/ \E cb \in Callbacks \cup {"none"} : timeOutInternal(cb)
    \/ TimerUnmount

TimerSpec == TimerInit /\ [][TimerNext]_vars

\* The clock advances without bound. Only differences of times are read, so once the
\* clock stands at MaxTime the times kept are moved back by one instead (a time that
\* reaches 0 stays there: it is then MaxTime ago or more, which exceeds every interval).
Earlier(t) == IF t > 0 THEN t - 1 ELSE 0

AdvanceUnbounded ==
    /\ IF now < MaxTime
       THEN now' = now + 1 /\ UNCHANGED <<start, armedAt>>
       ELSE now' = now /\ start' = Earlier(start) /\ armedAt' = Earlier(armedAt)
    /\ tstep' = TimerStep("advance", FALSE, "none", 0)
    /\ UNCHANGED <<tphase, enabled, resetState, intervalInternal, ticking, rearmed, fires>>
    /\ UNCHANGED hookVars

\* The interval calls timeOutInternal, with whatever the callback does.
Tick == \E cb \in Callbacks \cup {"none"} : timeOutInternal(cb)

TimerLiveNext ==
    \/ TimerMount
    \/ AdvanceUnbounded
    \/ \E b \in BOOLEAN : setEnabled(b)
    \/ reset
    \/ Tick
    \/ TimerUnmount

\* The timer under a clock that keeps advancing and an interval that keeps calling
\* timeOutInternal while it is set.
TimerLiveSpec ==
    /\ TimerInit
    /\ [][TimerLiveNext]_vars
    /\ WF_vars(AdvanceUnbounded)
    /\ WF_vars(Tick)

\* The steps of the update check.
Next ==
    \/ Mount
    \/ \E i \in 1..MaxInFlight, res \in UpdateResults : CheckThen(i, res)
    \/ \E i \in 1..MaxInFlight : CheckCatch(i)
    \/ checkUpdateExternal
    \/ TimeoutFire
    \/ \E p \in BOOLEAN : SetPassive(p)
    \/ Unmount

Spec == Init /\ [][Next]_vars

\* The update check of an active hook with retryCount = 1, keeping the record `done` of
\* the last two completions, to follow checks that overlap.
RaceInit ==
    /\ HookConstruct(FALSE, 1)
    /\ done = <<>>
    /\ TimerConstruct(0)

RaceSpec == RaceInit /\ [][Next]_vars

\* updateCallback reads and writes nothing of the hook's state (its dependency list is
\* empty), so the install-then-relaunch calls are explored under a specification of
\* their own, over the same state.
UpdateNext ==
    \/ Mount
    \/ \E p \in BOOLEAN : SetPassive(p)
    \/ Unmount
    \/ updateCallback
    \/ \E i \in 1..MaxUpdateCalls, outcome \in {"fulfilled", "rejected"} : InstallSettles(i, outcome)
    \/ \E i \in 1..MaxUpdateCalls, outcome \in {"fulfilled", "rejected"} : RelaunchSettles(i, outcome)

UpdateSpec == Init /\ [][UpdateNext]_vars

\* ---------------------------------------------------------------- properties

AutoOrigins == {"startup", "timeout"}

\* Checks in flight that reCheck started.
RecheckInFlight == {j \in 1..Len(inflight) : inflight[j].origin = "recheck"}

\* C1: once retryCount consecutive checks have failed with no reCheck in between,
\* shouldRetry is false and no step starts an automatic check (from the startup effect
\* or from the timeout) until reCheck is called.
C1_RetryCap ==
    [][consecFails' >= retryCount =>
         (~shouldRetry' /\ op'.issued \cap AutoOrigins = {})]_vars

\* C2: when the check that a reCheck started in the retry-exhausted state fails,
\* retries becomes exactly 1 and shouldRetry becomes (1 < retryCount).
C2_RecheckCountsFromZero ==
    [][(phase = "mounted" /\ op'.name = "catch"
            /\ op'.check.origin = "recheck" /\ op'.check.exhausted) =>
         (retries' = 1 /\ shouldRetry' = (1 < retryCount))]_vars

\* C3: every reCheck leaves retries = 0 and has started a checkUpdate() of its own,
\* whatever the mode and the retry state it is called in.
C3_RecheckForcesCheck ==
    [][op'.name = "recheck" =>
         /\ retries' = 0
         /\ Len(inflight') > Len(inflight)
         /\ inflight'[Len(inflight) + 1].origin = "recheck"]_vars

\* reCheck has just been called in passive mode in the retry-exhausted state.
C3_Witness ==
    /\ op.name = "recheck"
    /\ passive
    /\ retries = 0
    /\ \E j \in RecheckInFlight : inflight[j].exhausted

\* C4: every successful completion of a check on the mounted hook leaves retries = 0,
\* shouldRetry = false, checkError = false and shouldUpdate equal to the result's.
C4_SuccessResets ==
    [][(phase = "mounted" /\ op'.name = "then") =>
         /\ retries' = 0
         /\ ~shouldRetry'
         /\ ~checkError'
         /\ (op'.result.shouldUpdate => shouldUpdate' = "true")
         /\ (~op'.result.shouldUpdate => shouldUpdate' = "false")]_vars

\* A check has just succeeded with an update on a hook whose retries was not 0 (the
\* effects ran again and, in active mode, started a check).
C4_Witness ==
    /\ op.name = "then"
    /\ "startup" \in op.issued
    /\ op.result.shouldUpdate
    /\ retries = 0
    /\ shouldUpdate = "true"

\* C5: a step that ends passive with shouldRetry false starts no automatic check, and a
\* hook that has been passive since construction and never re-checked has started none.
C5_PassiveNoProactiveCheck ==
    /\ [][(passive' /\ ~shouldRetry') => op'.issued \cap AutoOrigins = {}]_vars
    /\ [](~prompted => (inflight = <<>> /\ shouldUpdate = "null"))

\* The timeout has fired on a passive hook with no retry pending, and started nothing.
C5_Witness ==
    /\ op.name = "timeout"
    /\ passive
    /\ ~shouldRetry
    /\ ~prompted
    /\ inflight = <<>>

\* C6: on mount and on every change of `passive`, the startup effect starts a check
\* if and only if !passive or (shouldRetry and retries < retryCount) holds then.
C6_StartupTrigger ==
    [][op'.name \in {"mount", "passive"} =>
         ("startup" \in op'.issued <=>
              (~passive' \/ (shouldRetry' /\ retries' < retryCount)))]_vars

\* `passive` has just changed from true to false and a check was started.
C6_Witness ==
    /\ op.name = "passive"
    /\ ~passive
    /\ op.issued = {"startup"}
    /\ inflight # <<>>

\* C7: periodic polling stays alive: the timeout is armed again after every fire, so an
\* active mounted hook with no check in flight always has its timeout armed.
C7_PollingStaysAlive ==
    (phase = "mounted" /\ ~passive /\ inflight = <<>>) => timeout.armed

\* C8: a call whose installUpdate() rejected has not called relaunch and its promise
\* is rejected; a call whose relaunch() rejected has its promise rejected.
C8_InstallFailureReported ==
    \A i \in 1..Len(calls) :
        /\ calls[i].install = "rejected" =>
               (calls[i].relaunched = 0 /\ calls[i].relaunch = "none"
                    /\ calls[i].promise = "rejected")
        /\ calls[i].relaunch = "rejected" => calls[i].promise = "rejected"

\* One call's installUpdate() has rejected and another's relaunch() has rejected.
C8_Witness ==
    \E i, j \in 1..Len(calls) :
        /\ calls[i].install = "rejected"
        /\ calls[j].relaunch = "rejected"

\* C9: a call has called relaunch only if its own installUpdate() fulfilled, and then
\* exactly once.
C9_InstallThenRelaunch ==
    \A i \in 1..Len(calls) :
        /\ calls[i].relaunch # "none" => calls[i].install = "fulfilled"
        /\ calls[i].relaunched = (IF calls[i].install = "fulfilled" THEN 1 ELSE 0)

\* One call has relaunched the process after its install, another is still installing.
C9_Witness ==
    /\ terminated
    /\ \E i, j \in 1..Len(calls) :
        /\ calls[i].install = "fulfilled" /\ calls[i].relaunch = "exited"
        /\ calls[i].relaunched = 1
        /\ calls[j].install = "pending" /\ calls[j].relaunched = 0

\* C10: a failed check on the mounted hook leaves shouldUpdate = undefined and
\* checkError = true, no promise chain of a check ever settles as rejected, and the
\* hook stays mounted.
C10_CheckFailureIsState ==
    /\ [][(phase = "mounted" /\ op'.name = "catch") =>
            (shouldUpdate' = "undefined" /\ checkError'
                 /\ phase' = "mounted" /\ ~terminated')]_vars
    /\ []~unhandled

\* A check has just failed and the hook has taken the next trigger: a check is in flight.
C10_Witness ==
    /\ op.name = "catch"
    /\ phase = "mounted"
    /\ shouldUpdate = "undefined"
    /\ checkError
    /\ inflight # <<>>

\* C11: the callback runs only if setEnabled(true) was called since its last run (or it
\* has not run yet), and a fire leaves `enabled` false unless the callback itself called
\* setEnabled(true).
C11_FireOncePerArm ==
    [][tstep'.fired =>
         /\ rearmed
         /\ enabled
         /\ tstep'.callback # "enable" => ~enabled']_vars

\* The callback has just run for the second time and the timer is disabled again.
C11_Witness ==
    /\ tstep.fired
    /\ fires >= 2
    /\ ~enabled
    /\ ~rearmed

\* C12: a tick that finds the timer enabled with a reset pending and the interval
\* exceeded does not run the callback, clears resetState, leaves the timer enabled and
\* sets start to the time of the tick.
C12_ResetWinsOverExpiry ==
    [][(tstep'.name = "tick" /\ enabled /\ resetState /\ now - start > intervalInternal) =>
         (~tstep'.fired /\ ~resetState' /\ enabled' /\ start' = now)]_vars

\* A tick has just consumed a reset on an enabled timer whose interval was exceeded.
C12_Witness ==
    /\ tstep.name = "tick"
    /\ tstep.timeDiff > intervalInternal
    /\ ~tstep.fired
    /\ enabled
    /\ ~resetState
    /\ start = now

\* C13: whenever the callback runs, more than intervalInternal has passed since the timer
\* was last armed (construction, a change of `enabled` to true, a consumed reset, a fire).
C13_NoEarlyFire ==
    [][tstep'.fired => now - armedAt > intervalInternal]_vars

\* The callback has just run a second time, on an interval of at least one unit.
C13_Witness ==
    /\ tstep.fired
    /\ fires >= 2
    /\ intervalInternal >= 1
    /\ tstep.timeDiff > intervalInternal

\* C14: once useTimeout is unmounted no step runs the callback.
C14_NoFireAfterTeardown ==
    [][tphase = "unmounted" => ~tstep'.fired]_vars

\* The timer was unmounted enabled, and its interval has since been exceeded.
C14_Witness ==
    /\ tphase = "unmounted"
    /\ tstep.name = "advance"
    /\ enabled
    /\ ~resetState
    /\ now - start > intervalInternal
    /\ fires = 0

\* The read model and the retry state.
Status == <<shouldUpdate, manifest, checkError>>
RetryState == <<retries, shouldRetry>>

\* C15: once the hook is unmounted no step starts a check, also not the completion of a
\* check that was in flight; such a completion leaves the state as it was and no promise
\* chain settles as rejected.
C15_NoCheckAfterTeardown ==
    [][phase = "unmounted" =>
         /\ op'.issued = {}
         /\ Len(inflight') <= Len(inflight)
         /\ ~timeout'.armed
         /\ Status' = Status /\ retries' = retries
         /\ ~unhandled']_vars

\* A check that was in flight at unmount has failed afterwards; nothing was written.
C15_Witness ==
    /\ phase = "unmounted"
    /\ op.name = "catch"
    /\ inflight = <<>>
    /\ ~checkError
    /\ shouldUpdate = "null"

\* C16: checkError, shouldUpdate = undefined and manifest = undefined hold together,
\* and on the hook that is not unmounted the read model tells whether no check has
\* completed (shouldUpdate = null), the last one failed (undefined) or succeeded.
C16_ReadModelConsistent ==
    /\ checkError <=> shouldUpdate = "undefined"
    /\ checkError <=> manifest = "undefined"
    /\ phase # "unmounted" =>
          /\ lastKind = "none" <=> shouldUpdate = "null"
          /\ lastKind = "catch" <=> shouldUpdate = "undefined"
          /\ lastKind = "then" <=> shouldUpdate \in {"true", "false"}

\* Checked and up to date, with a manifest that is null as before any check.
C16_Witness ==
    /\ phase = "mounted"
    /\ lastKind = "then"
    /\ shouldUpdate = "false"
    /\ manifest = "null"
    /\ ~checkError

\* C17: every failed completion on the mounted hook sets retries to its value just
\* before the completion plus one, and shouldRetry to (retries < retryCount).
C17_FailureIncrements ==
    [][(phase = "mounted" /\ op'.name = "catch") =>
         (retries' = retries + 1 /\ shouldRetry' = (retries' < retryCount))]_vars

\* C18 as stated: shouldRetry is true exactly when the check that completed last
\* failed and retries < retryCount.
C18_ShouldRetryIffFailed ==
    shouldRetry <=> (lastKind = "catch" /\ retries < retryCount)

\* C18 as amended: on the hook that is not unmounted, shouldRetry is true exactly when
\* retries < retryCount and either the check that completed last failed or reCheck has
\* been called since the last completion.
C18_ShouldRetryAmended ==
    phase # "unmounted" =>
        (shouldRetry <=> (retries < retryCount /\ (lastKind = "catch" \/ rechecked)))

\* reCheck was called after a successful check: shouldRetry is true with no failure.
C18_Witness ==
    /\ phase = "mounted"
    /\ rechecked
    /\ lastKind = "then"
    /\ shouldRetry
    /\ retries = 0

\* C19 as stated: only a completion of a check changes shouldUpdate, manifest,
\* checkError, retries or shouldRetry.
C19_OnlyCompletionWrites ==
    [][(Status' # Status \/ RetryState' # RetryState) =>
         op'.name \in {"then", "catch"}]_vars

\* C19 as amended: shouldUpdate, manifest, checkError, retries and shouldRetry change
\* only in a completion of a check or in reCheck; a completion on the mounted hook
\* writes the status and the retry state together; reCheck sets retries = 0 and
\* shouldRetry = true and leaves the status as it was.
C19_CompletionOrRecheckWrites ==
    [][/\ (Status' # Status \/ RetryState' # RetryState) =>
             op'.name \in {"then", "catch", "recheck"}
       /\ op'.name = "recheck" =>
             (Status' = Status /\ retries' = 0 /\ shouldRetry')
       /\ (phase = "mounted" /\ op'.name = "then") =>
             (shouldUpdate' \in {"true", "false"} /\ retries' = 0 /\ ~shouldRetry')
       /\ (phase = "mounted" /\ op'.name = "catch") =>
             (shouldUpdate' = "undefined" /\ retries' = op'.check.captured + 1
                  /\ shouldRetry' = (retries' < retryCount))]_vars

\* reCheck has just reset the retry state of a hook whose last check failed; the status
\* is still the failure.
C19_Witness ==
    /\ op.name = "recheck"
    /\ lastKind = "catch"
    /\ checkError
    /\ shouldUpdate = "undefined"
    /\ retries = 0
    /\ shouldRetry
    /\ \E j \in RecheckInFlight : inflight[j].captured > 0

\* C20: on the mounted hook the read model is the outcome of the check that completed
\* last, whichever check was started first: a completion with another check in flight
\* writes its own result.
C20_LastWriterWins ==
    /\ [](phase = "mounted" /\ done # <<>> =>
            /\ done[Len(done)].kind = "catch" <=>
                   (checkError /\ shouldUpdate = "undefined" /\ manifest = "undefined")
            /\ done[Len(done)].kind = "then" <=>
                   (~checkError /\ shouldUpdate \in {"true", "false"}))
    /\ [][(phase = "mounted" /\ Len(inflight) >= 2 /\ op'.name = "then") =>
            /\ op'.result.shouldUpdate => shouldUpdate' = "true"
            /\ ~op'.result.shouldUpdate => shouldUpdate' = "false"
            /\ manifest' \in {op'.result.manifest, "null"}]_vars

\* The check of a reCheck, started second, succeeded first; the startup check, started
\* first, then failed: the read model shows the failure.
C20_Witness ==
    /\ phase = "mounted"
    /\ Len(done) = 2
    /\ done[1] = [kind |-> "then", origin |-> "recheck", index |-> 2]
    /\ done[2] = [kind |-> "catch", origin |-> "startup", index |-> 1]
    /\ checkError
    /\ shouldUpdate = "undefined"

\* The steps at which a check may be started: mount, a change of `passive`, a fire of
\* the timeout, reCheck.
TriggerSteps == {"mount", "passive", "timeout", "recheck"}

\* C21: checkUpdate() is called only in a mount, a change of `passive`, a fire of the
\* timeout or a reCheck; the completion of a check starts no check.
C21_CompletionStartsNoCheck ==
    [][op'.issued # {} => op'.name \in TriggerSteps]_vars

\* C24: whenever shouldUpdate is true the manifest state holds a manifest, neither null
\* nor undefined.
C24_AvailableHasManifest ==
    shouldUpdate = "true" => manifest \in Manifests

\* C25: retries never exceeds retryCount.
C25_RetriesWithinCount ==
    retries <= retryCount

\* C26: a reCheck starts exactly one checkUpdate(), whatever `retries` was before it.
C26_RecheckStartsOneCheck ==
    [][op'.name = "recheck" => Len(inflight') = Len(inflight) + 1]_vars

\* C27: on the hook that is not unmounted, shouldUpdate and manifest are both null with
\* checkError false exactly when no check has completed; before the mount retries is 0
\* and shouldRetry false; and no step, reCheck included, puts shouldUpdate back to null.
C27_UnresolvedUntilFirstCompletion ==
    /\ [](phase # "unmounted" =>
            (lastKind = "none" <=>
                 (shouldUpdate = "null" /\ manifest = "null" /\ ~checkError)))
    /\ [](phase = "constructed" => (lastKind = "none" /\ retries = 0 /\ ~shouldRetry))
    /\ [][shouldUpdate # "null" => shouldUpdate' # "null"]_vars

\* reCheck has just been called after a check that found no update and delivered no
\* manifest: the manifest is null as at construction, the status is not unresolved.
C27_Witness ==
    /\ op.name = "recheck"
    /\ lastKind = "then"
    /\ shouldUpdate = "false"
    /\ manifest = "null"
    /\ retries = 0
    /\ shouldRetry

\* C22: while `enabled` is false no step runs the callback, however long ago the
\* countdown started, and setEnabled(false) leaves resetState.current as it was.
C22_DisabledNeverFires ==
    [][/\ ~enabled => ~tstep'.fired
       /\ tstep'.name = "disable" => resetState' = resetState]_vars

\* setEnabled(false) has just been called with a reset pending and the interval
\* exceeded: the reset is still pending and the callback has never run.
C22_Witness ==
    /\ tstep.name = "disable"
    /\ ~enabled
    /\ resetState
    /\ now - start > intervalInternal
    /\ fires = 0

\* C23: a tick that finds the timer disabled leaves resetState.current false and changes
\* neither `enabled` nor start.current, and runs no callback.
C23_DisabledTickDiscardsReset ==
    [][(tstep'.name = "tick" /\ ~enabled) =>
         (~resetState' /\ ~tstep'.fired /\ enabled' = enabled /\ start' = start)]_vars

\* A tick has just found the timer disabled with a reset pending and discarded it.
C23_Witness ==
    /\ tstep.name = "tick"
    /\ tstep.pending
    /\ ~enabled
    /\ ~resetState
    /\ ~tstep.fired

\* Steps of the owner of the timer, and its unmount.
Interference == {"enable", "disable", "reset", "unmount"}

\* C28: from every state of the mounted, enabled timer reached by a tick or by the
\* clock, the callback runs eventually unless setEnabled or reset is called or the hook
\* unmounts first; and a tick that finds a reset pending never runs the callback.
C28_EventuallyFires ==
    /\ (tphase = "mounted" /\ enabled /\ tstep.name \notin Interference)
           ~> (tstep.fired \/ tstep.name \in Interference)
    /\ [][(tstep'.name = "tick" /\ resetState) => (~tstep'.fired /\ fires' = fires)]_vars

\* The callback has run twice on the longest interval, the second time after the clock
\* had passed MaxTime.
C28_Witness ==
    /\ tstep.fired
    /\ fires >= 2
    /\ intervalInternal = MaxInterval
    /\ now = MaxTime
    /\ tstep.timeDiff > intervalInternal

\* C29: reset() sets resetState.current and changes neither `enabled` nor start.current;
\* on a disabled timer neither reset() nor a tick nor the clock enables it or runs the
\* callback.
C29_ResetOnlySetsFlag ==
    [][/\ tstep'.name = "reset" => (resetState' /\ enabled' = enabled /\ start' = start)
       /\ (~enabled /\ tstep'.name \in {"reset", "tick", "advance"}) =>
              (~enabled' /\ ~tstep'.fired)]_vars

\* reset() has just been called on a timer that has fired and is still disabled.
C29_Witness ==
    /\ tstep.name = "reset"
    /\ fires >= 1
    /\ ~enabled
    /\ ~rearmed
    /\ resetState

\* C30: setEnabled(true) on an enabled timer changes nothing of the timer; on a
\* disabled timer it sets start.current to the time of the call.
C30_EnableWhenEnabledIsNoOp ==
    [][/\ (tstep'.name = "enable" /\ enabled) =>
              (enabled' /\ start' = start /\ armedAt' = armedAt
                   /\ resetState' = resetState /\ ticking' = ticking)
       /\ (tstep'.name = "enable" /\ ~enabled) => (enabled' /\ start' = now)]_vars

\* setEnabled(true) has just been called on an enabled timer whose interval was already
\* exceeded: the countdown was not restarted.
C30_Witness ==
    /\ tstep.name = "enable"
    /\ tphase = "mounted"
    /\ enabled
    /\ intervalInternal >= 1
    /\ now - start > intervalInternal
    /\ fires = 0

====
